---- MODULE Spec2Model ----
(***************************************************************************)
(* Order lifecycle, cart and loyalty ledger of the bakery back end.        *)
(*                                                                         *)
(* Money is kept in hundredths of a cent (1 euro = 10000) so that the 23%  *)
(* tax of a price given in cents and the 1 cent value of a point are exact *)
(* integers.  A percentage is kept as an integer number of percent.        *)
(***************************************************************************)
EXTENDS Integers, Sequences, FiniteSets, TLC

(***************************************************************************)
(* Bounds of the model                                                     *)
(***************************************************************************)
MaxTx == 3          \* ledger entries of the Mongoose loyalty account
MaxSqlTx == 3       \* rows of loyalty_transactions of the SQL back end

MaxOrders == 1     \* orders in the orders collection
MaxSqlOrders == 2  \* rows in the SQL orders table
MaxNow == 1        \* ticks of the clock
MaxHistory == 2    \* entries in an order's status history
MaxQty == 2         \* a cart line's quantity, capped in the add-item guard
MaxDeliveries == 2  \* documents in the deliveries collection, rows in the SQL table
MaxReports == 105   \* positions a driver reports for a delivery
MaxOver == 2          \* units above the ceiling that a line of a large cart may reach
MaxDeliveryHistory == 3 \* entries in a delivery's status history before a request

Reqs == {1, 2}      \* request handlers that may be in flight together
Users == {"u1", "u2"}
Products == {"p1", "p2"}

Prices == {20000, 35000}            \* product.price: 2.00 and 3.50
Quantities == {1, 2}                \* body.quantity of add-item / update-item
Customizations == {<< >>, <<5000>>} \* additionalCost of each customization: none, or one of 0.50
PointChoices == {0, 100, 90000}     \* body.loyaltyPointsUsed of PUT /payment
DiscountAmounts == {5000, 30000}    \* apply-discount: body.discountAmount (the code WELCOME10 is an amount too)
DeliveryTypes == {"delivery", "pickup"}

UseAmounts == {100, 150}            \* body.points of use-points (isInt, min 1)
AddAmounts == {150, 250, 600}       \* body.points of admin/add-points
AdjustAmounts == {-100, 50, 350}    \* body.points of admin/adjust-points (signed)
SqlAmounts == {50, 100, 250}        \* body.points of the SQL use-points / add-points

(***************************************************************************)
(* Loyalty model (models/Loyalty): tiers and benefits                      *)
(***************************************************************************)
SilverPoints == 200
GoldPoints == 500
PlatinumPoints == 1000

Tiers == <<"bronze", "silver", "gold", "platinum">>

\* position of a tier in the ascending order bronze < silver < gold < platinum
TierRank(t) == CHOOSE i \in 1..Len(Tiers) : Tiers[i] = t

\* loyaltySchema.methods.calculateTier
calculateTier_OffByOne(doc) ==
  IF doc.current > PlatinumPoints THEN "platinum"
  ELSE IF doc.current > GoldPoints THEN "gold"
  ELSE IF doc.current > SilverPoints THEN "silver"
  ELSE "bronze"

calculateTier(doc) ==
  IF doc.current >= PlatinumPoints THEN "platinum"
  ELSE IF doc.current >= GoldPoints THEN "gold"
  ELSE IF doc.current >= SilverPoints THEN "silver"
  ELSE "bronze"

\* loyaltySchema.methods.getPointsRequiredForTier
getPointsRequiredForTier(tier) ==
  CASE tier = "bronze" -> 0
    [] tier = "silver" -> SilverPoints
    [] tier = "gold" -> GoldPoints
    [] tier = "platinum" -> PlatinumPoints

\* the tierBenefits table of loyaltySchema.methods.updateBenefits
tierBenefits(tier) ==
  CASE tier = "bronze" ->
         [discountPercentage |-> 5, freeDelivery |-> FALSE, prioritySupport |-> FALSE,
          exclusiveOffers |-> FALSE, birthdayReward |-> FALSE, earlyAccess |-> FALSE]
    [] tier = "silver" ->
         [discountPercentage |-> 10, freeDelivery |-> TRUE, prioritySupport |-> FALSE,
          exclusiveOffers |-> TRUE, birthdayReward |-> TRUE, earlyAccess |-> FALSE]
    [] tier = "gold" ->
         [discountPercentage |-> 15, freeDelivery |-> TRUE, prioritySupport |-> TRUE,
          exclusiveOffers |-> TRUE, birthdayReward |-> TRUE, earlyAccess |-> TRUE]
    [] tier = "platinum" ->
         [discountPercentage |-> 20, freeDelivery |-> TRUE, prioritySupport |-> TRUE,
          exclusiveOffers |-> TRUE, birthdayReward |-> TRUE, earlyAccess |-> TRUE]

\* loyaltySchema.methods.updateBenefits: a total replacement of benefits
updateBenefits(doc) == [doc EXCEPT !.benefits = tierBenefits(doc.tier)]

\* loyaltySchema.methods.updateTier
updateTier_NoHistory(doc) ==
  LET newTier == calculateTier(doc) IN
  IF newTier # doc.tier
    THEN updateBenefits([doc EXCEPT !.tier = newTier])
    ELSE doc

updateTier(doc) ==
  LET newTier == calculateTier(doc) IN
  IF newTier # doc.tier
    THEN updateBenefits(
           [doc EXCEPT !.history = Append(@, [tier |-> newTier,
                                              pointsRequired |-> getPointsRequiredForTier(newTier),
                                              pointsAchieved |-> doc.current]),
                       !.tier = newTier])
    ELSE doc

\* A Loyalty document with the schema defaults, not yet stored (exists = FALSE).
NewLoyalty ==
  [exists |-> FALSE,
   current |-> 0, total |-> 0, used |-> 0, expired |-> 0,
   tier |-> "bronze",
   history |-> << >>,
   benefits |-> [discountPercentage |-> 5, freeDelivery |-> FALSE, prioritySupport |-> FALSE,
                 exclusiveOffers |-> FALSE, birthdayReward |-> FALSE, earlyAccess |-> FALSE],
   transactions |-> << >>,
   totalOrders |-> 0]

\* loyaltySchema.methods.addPoints, up to its save
addPoints(doc, amount) ==
  [doc EXCEPT !.current = @ + amount,
              !.total = @ + amount,
              !.transactions = Append(@, [type |-> "earned", amount |-> amount]),
              !.totalOrders = @ + 1]

\* loyaltySchema.methods.canUsePoints
canUsePoints_Strict(doc, amount) == doc.current > amount

canUsePoints(doc, amount) == doc.current >= amount

\* loyaltySchema.methods.usePoints, up to its save; threw = 'Pontos insuficientes'
usePoints_NoUsed(doc, amount) ==
  IF amount > doc.current
    THEN [threw |-> TRUE, doc |-> doc]
    ELSE [threw |-> FALSE,
          doc |-> [doc EXCEPT !.current = @ - amount,
                              !.transactions = Append(@, [type |-> "used", amount |-> -amount])]]

usePoints(doc, amount) ==
  IF amount > doc.current
    THEN [threw |-> TRUE, doc |-> doc]
    ELSE [threw |-> FALSE,
          doc |-> [doc EXCEPT !.current = @ - amount,
                              !.used = @ + amount,
                              !.transactions = Append(@, [type |-> "used", amount |-> -amount])]]

\* POST /admin/adjust-points: the in-memory adjustment, with its explicit updateTier
adjustPoints(doc, points) ==
  updateTier([doc EXCEPT !.transactions = Append(@, [type |-> "adjustment", amount |-> points]),
                         !.current = @ + points,
                         !.total = @ + points])

\* the schema's min: [0, ...] validators of points.*
validPoints(doc) ==
  doc.current >= 0 /\ doc.total >= 0 /\ doc.used >= 0 /\ doc.expired >= 0

\* loyaltySchema.pre('save')
preSave(doc) == updateTier(doc)

pushedSince(s, n) == SubSeq(s, n + 1, Len(s))

\* What save() stores: the paths the handler changed since it loaded the
\* document are written, pushed array elements are appended to the stored
\* arrays, every other path keeps its stored value.
storeDoc(db, orig, doc) ==
  [exists |-> TRUE,
   current |-> IF doc.current # orig.current THEN doc.current ELSE db.current,
   total |-> IF doc.total # orig.total THEN doc.total ELSE db.total,
   used |-> IF doc.used # orig.used THEN doc.used ELSE db.used,
   expired |-> IF doc.expired # orig.expired THEN doc.expired ELSE db.expired,
   tier |-> IF doc.tier # orig.tier THEN doc.tier ELSE db.tier,
   benefits |-> IF doc.benefits # orig.benefits THEN doc.benefits ELSE db.benefits,
   totalOrders |-> IF doc.totalOrders # orig.totalOrders THEN doc.totalOrders ELSE db.totalOrders,
   history |-> db.history \o pushedSince(doc.history, Len(orig.history)),
   transactions |-> db.transactions \o pushedSince(doc.transactions, Len(orig.transactions))]


(***************************************************************************)
(* Product model (models/Product): availability                            *)
(***************************************************************************)
MaxOrderQuantity == 50
OpensAt == 7        \* availableHours.start, '07:00'
ClosesAt == 19      \* availableHours.end, '19:00'

\* availability.availableDays of the catalogue's products
AvailableDays(p) == IF p = "p1" THEN {"monday", "sunday"} ELSE {"monday"}

\* The clock: the weekday and the hour of day of a request.
Clocks ==
  {[weekday |-> "monday", hour |-> 12], [weekday |-> "sunday", hour |-> 12],
   [weekday |-> "monday", hour |-> 6]}

\* toLocaleDateString('en-US', { weekday: 'monday' }) is given an option value
\* that is not one of narrow, short, long.  An engine that validates the option
\* raises a RangeError on every call; one that does not gives the weekday.
\* Which of the two the server runs on is fixed when it starts.
Engines == {"validating", "lenient"}

\* new Date().toLocaleDateString('en-US', { weekday: 'monday' }).toLowerCase()
\* together with the hour of toTimeString()
currentDay(eng, clock) ==
  [weekday |-> IF eng = "validating" THEN "RangeError" ELSE clock.weekday,
   hour |-> clock.hour]

\* productSchema.methods.isAvailableNow: "true", "false" or "throws"
isAvailableNow_IgnoresFlag(prod, p, clock) ==
  IF clock.weekday = "RangeError" THEN "throws"
  ELSE IF clock.weekday \notin AvailableDays(p) THEN "false"
  ELSE IF clock.hour < OpensAt \/ clock.hour > ClosesAt THEN "false"
  ELSE IF prod.stockQuantity # -1 /\ prod.stockQuantity <= 0 THEN "false"
  ELSE "true"

isAvailableNow(prod, p, clock) ==
  IF ~prod.isAvailable THEN "false"
  ELSE IF clock.weekday = "RangeError" THEN "throws"
  ELSE IF clock.weekday \notin AvailableDays(p) THEN "false"
  ELSE IF clock.hour < OpensAt \/ clock.hour > ClosesAt THEN "false"
  ELSE IF prod.stockQuantity # -1 /\ prod.stockQuantity <= 0 THEN "false"
  ELSE "true"

(***************************************************************************)
(* Cart model (models/Cart)                                                *)
(***************************************************************************)
TaxPercent == 23         \* IVA, subtotal * 0.23
PointValue == 100        \* 0.01 per point
DeliveryFeeFlat == 25000 \* 2.50

RECURSIVE SumSeq(_)
SumSeq(s) == IF s = << >> THEN 0 ELSE Head(s) + SumSeq(Tail(s))

Max(a, b) == IF a >= b THEN a ELSE b
Min(a, b) == IF a <= b THEN a ELSE b

\* the reduce of calculateTotals: quantity * unitPrice + customization costs, summed
RECURSIVE cartSubtotal(_)
cartSubtotal(items) ==
  IF items = << >> THEN 0
  ELSE Head(items).quantity * Head(items).unitPrice
         + SumSeq(Head(items).customization) + cartSubtotal(Tail(items))

\* cartSchema.methods.calculateTotals
calculateTotals_StaleTax(c) ==
  LET subtotal == cartSubtotal(c.items)
      loyaltyDiscount == c.points * PointValue
  IN [c EXCEPT !.totals =
        [subtotal |-> subtotal,
         deliveryFee |-> c.fee,
         tax |-> c.totals.tax,
         discount |-> c.totals.discount,
         loyaltyDiscount |-> loyaltyDiscount,
         total |-> Max(0, subtotal + c.fee + c.totals.tax - c.totals.discount - loyaltyDiscount)]]

calculateTotals(c) ==
  LET subtotal == cartSubtotal(c.items)
      tax == (subtotal * TaxPercent) \div 100
      loyaltyDiscount == c.points * PointValue
  IN [c EXCEPT !.totals =
        [subtotal |-> subtotal,
         deliveryFee |-> c.fee,
         tax |-> tax,
         discount |-> c.totals.discount,
         loyaltyDiscount |-> loyaltyDiscount,
         total |-> Max(0, subtotal + c.fee + tax - c.totals.discount - loyaltyDiscount)]]

\* cartSchema.pre('save')
cartPreSave(c) == calculateTotals(c)

\* save() of a cart document: the pre-save hook, then the document is stored
cartSave(c) == [cartPreSave(c) EXCEPT !.exists = TRUE]

\* new Cart({ user, items: [], delivery: { type: 'delivery', ... } }) with the schema defaults
NewCart ==
  [exists |-> FALSE, expiresAt |-> 0, items |-> << >>, dtype |-> "delivery", fee |-> 0,
   points |-> 0,
   totals |-> [subtotal |-> 0, deliveryFee |-> 0, tax |-> 0, discount |-> 0,
               loyaltyDiscount |-> 0, total |-> 0]]

\* findIndex of a product's line, 0 when there is none
lineIndex(items, p) ==
  IF \E i \in 1..Len(items) : items[i].product = p
    THEN CHOOSE i \in 1..Len(items) :
           items[i].product = p /\ \A j \in 1..(i - 1) : items[j].product # p
    ELSE 0

\* cartSchema.methods.addItem
cartAddItem(c, p, quantity, unitPrice, customization) ==
  LET i == lineIndex(c.items, p) IN
  cartSave(calculateTotals(
    IF i # 0
      THEN [c EXCEPT !.items[i].quantity = @ + quantity,
                     !.items[i].totalPrice = (c.items[i].quantity + quantity) * unitPrice,
                     !.items[i].customization = customization]
      ELSE [c EXCEPT !.items = Append(@,
              [product |-> p, quantity |-> quantity, unitPrice |-> unitPrice,
               totalPrice |-> quantity * unitPrice + SumSeq(customization),
               customization |-> customization])]))

\* the filter of removeItem
RECURSIVE withoutProduct(_, _)
withoutProduct(items, p) ==
  IF items = << >> THEN << >>
  ELSE IF Head(items).product = p THEN withoutProduct(Tail(items), p)
  ELSE <<Head(items)>> \o withoutProduct(Tail(items), p)

\* cartSchema.methods.removeItem
cartRemoveItem(c, p) ==
  cartSave(calculateTotals([c EXCEPT !.items = withoutProduct(c.items, p)]))

\* cartSchema.methods.updateItemQuantity; threw = 'Produto não encontrado no carrinho'
cartUpdateItemQuantity(c, p, newQuantity) ==
  LET i == lineIndex(c.items, p) IN
  IF newQuantity <= 0 THEN [threw |-> FALSE, cart |-> cartRemoveItem(c, p)]
  ELSE IF i # 0
    THEN [threw |-> FALSE,
          cart |-> cartSave(calculateTotals(
                     [c EXCEPT !.items[i].quantity = newQuantity,
                               !.items[i].totalPrice = newQuantity * c.items[i].unitPrice]))]
  ELSE [threw |-> TRUE, cart |-> c]

\* cartSchema.methods.clearCart
cartClearCart(c) == cartSave(calculateTotals([c EXCEPT !.items = << >>]))

\* cartSchema.methods.applyDiscount
cartApplyDiscount(c, discountAmount) ==
  cartSave(calculateTotals([c EXCEPT !.totals.discount = Min(discountAmount, c.totals.subtotal)]))

\* cartSchema.methods.useLoyaltyPoints
cartUseLoyaltyPoints(c, points) ==
  cartSave(calculateTotals([c EXCEPT !.points = Max(0, points)]))

(***************************************************************************)
(* Order model (models/Order)                                              *)
(***************************************************************************)
PointsPerEuro == 1

\* the decimal digits of toString()
RECURSIVE toDigits(_)
toDigits(n) == IF n < 10 THEN <<n>> ELSE toDigits(n \div 10) \o <<n % 10>>

\* padStart(3, '0')
RECURSIVE padStart3(_)
padStart3(text) == IF Len(text) >= 3 THEN text ELSE padStart3(<<0>> \o text)

\* `SP${year}${month}${day}${sequence.toString().padStart(3, '0')}`: the date
\* prefix has a fixed width, the text after it is the sequence's digits
formatOrderNumber(day, sequence) ==
  [day |-> day, text |-> padStart3(toDigits(sequence))]

\* parseInt(orderNumber.slice(-3))
lastSequence(orderNumber) ==
  LET t == orderNumber.text
      n == Len(t)
  IN t[n - 2] * 100 + t[n - 1] * 10 + t[n]

\* the order of two strings of digits
RECURSIVE textLess(_, _)
textLess(a, b) ==
  IF a = << >> THEN b # << >>
  ELSE IF b = << >> THEN FALSE
  ELSE IF Head(a) # Head(b) THEN Head(a) < Head(b)
  ELSE textLess(Tail(a), Tail(b))

\* findOne({ orderNumber: /^SP<date>/ }).sort({ orderNumber: -1 }): the indexes
\* of the day's orders, and the one with the greatest number
ordersOfDay(coll, day) == {i \in 1..Len(coll) : coll[i].orderNumber.day = day}

lastOrderOfDay(coll, day) ==
  CHOOSE i \in ordersOfDay(coll, day) :
    \A j \in ordersOfDay(coll, day) :
      ~textLess(coll[i].orderNumber.text, coll[j].orderNumber.text)

\* orderSchema.pre('save') of a new order: the sequence number to give it
nextSequence(coll, day) ==
  IF ordersOfDay(coll, day) = {} THEN 1
  ELSE lastSequence(coll[lastOrderOfDay(coll, day)].orderNumber) + 1

\* the reduce of calculateTotal
RECURSIVE orderSubtotal(_)
orderSubtotal(items) ==
  IF items = << >> THEN 0 ELSE Head(items).totalPrice + orderSubtotal(Tail(items))

\* orderSchema.methods.calculateTotal
orderCalculateTotal(o) ==
  LET subtotal == orderSubtotal(o.items)
      total == subtotal + o.fee + o.payment.tax - o.payment.discount
                 - o.payment.loyaltyDiscount
  IN [o EXCEPT !.payment.amount = subtotal, !.payment.finalAmount = Max(0, total)]

\* orderSchema.methods.calculateLoyaltyPoints: Math.floor of the amount in euros
\* (10000 of the model's unit of money)
calculateLoyaltyPoints_FromAmount(o) ==
  [o EXCEPT !.earned = (o.payment.amount * PointsPerEuro) \div 10000]

calculateLoyaltyPoints(o) ==
  [o EXCEPT !.earned = (o.payment.finalAmount * PointsPerEuro) \div 10000]

\* orderSchema.pre('save'), second hook: an entry is pushed when status.current
\* was set to another value since the document was loaded.  A status that
\* comes from the schema default is not a modified path.
orderPreSave(orig, o) ==
  IF o.status # orig.status
    THEN [o EXCEPT !.history = Append(@,
            [status |-> o.status,
             note |-> IF o.staffNotes # "" THEN o.staffNotes ELSE "Status atualizado",
             updatedBy |-> "none"])]
    ELSE o

\* orderSchema.methods.addItem
orderAddItem(o, p, quantity, unitPrice, customization) ==
  orderPreSave(o, orderCalculateTotal(
    [o EXCEPT !.items = Append(@,
       [product |-> p, quantity |-> quantity, unitPrice |-> unitPrice,
        totalPrice |-> quantity * unitPrice + SumSeq(customization),
        customization |-> customization])]))

\* splice(itemIndex, 1), with the model's indexes from 1
spliceOne(items, i) == SubSeq(items, 1, i - 1) \o SubSeq(items, i + 1, Len(items))

\* orderSchema.methods.removeItem; threw = 'Índice de item inválido'
orderRemoveItem(o, itemIndex) ==
  IF itemIndex >= 1 /\ itemIndex <= Len(o.items)
    THEN [threw |-> FALSE,
          doc |-> orderPreSave(o, orderCalculateTotal(
                    [o EXCEPT !.items = spliceOne(o.items, itemIndex)]))]
    ELSE [threw |-> TRUE, doc |-> o]

\* orderSchema.methods.applyLoyaltyDiscount: the amount times the argument
applyLoyaltyDiscount(o, discountPercentage) ==
  orderPreSave(o, orderCalculateTotal(
    [o EXCEPT !.payment.loyaltyDiscount = o.payment.amount * discountPercentage]))

\* orderSchema.methods.updateStatus; threw = the TypeError of writing updatedBy
\* into the last entry of an empty history
updateStatus(o, newStatus, note, updatedBy) ==
  IF updatedBy # "none" /\ o.history = << >> THEN [threw |-> TRUE, doc |-> o]
  ELSE LET n == Len(o.history)
           marked == IF updatedBy # "none"
                       THEN [o EXCEPT !.history[n].updatedBy = updatedBy] ELSE o
       IN [threw |-> FALSE,
           doc |-> orderPreSave(o, [marked EXCEPT !.status = newStatus,
                                                  !.staffNotes = note])]

\* new Order({ user, items, delivery, payment }) of POST /create, with the
\* schema's defaults, after calculateTotal and calculateLoyaltyPoints
orderFromCart(u, c) ==
  calculateLoyaltyPoints(orderCalculateTotal(
    [orderNumber |-> [day |-> 0, text |-> << >>],
     user |-> u,
     items |-> c.items,
     fee |-> c.fee,
     payment |-> [status |-> "pending", amount |-> c.totals.subtotal,
                  tax |-> c.totals.tax, discount |-> c.totals.discount,
                  loyaltyDiscount |-> c.totals.loyaltyDiscount,
                  finalAmount |-> c.totals.total],
     status |-> "pending",
     history |-> << >>,
     staffNotes |-> "",
     earned |-> 0,
     used |-> 0]))

(***************************************************************************)
(* State                                                                   *)
(***************************************************************************)
VARIABLES
  loyalty,    \* the stored Loyalty document of the user
  req,        \* per request handler: position, operation, input, loaded document, response
  sqlUser,    \* SQL back end: the users row (loyalty_points, loyalty_tier)
  sqlTx,      \* SQL back end: the loyalty_transactions rows of the user
  product,    \* the catalogue: price and availability of each product
  cart,       \* the stored Cart document of each user
  cartResp,   \* the response of the latest cart request
  engine,     \* the JavaScript engine's handling of the weekday option
  now,        \* the clock, in ticks of Date.now()
  orders,     \* the orders collection, in insertion order
  chk,        \* per checkout handler: position, user, loaded cart, order being built, response
  orderResp,  \* the response of the latest order request
  sqlCart,    \* SQL back end: the quantity of each product in the user's cart_items
  sqlOrders,  \* SQL back end: the orders rows with their order_items
  sqlOrderResp, \* SQL back end: the response of the latest order request
  deliveries, \* the deliveries collection, in insertion order
  deliveryResp, \* the response of the latest delivery request
  sqlDeliveries, \* SQL back end: the deliveries rows
  sqlDeliveryResp \* SQL back end: the response of the latest delivery request

loyaltyVars == <<loyalty, req>>
sqlVars == <<sqlUser, sqlTx>>
cartVars == <<product, cart, cartResp>>
envVars == <<engine, now>>
orderVars == <<orders, chk, orderResp>>
sqlOrderVars == <<sqlCart, sqlOrders, sqlOrderResp>>
deliveryVars == <<deliveries, deliveryResp>>
sqlDeliveryVars == <<sqlDeliveries, sqlDeliveryResp>>
vars == <<loyalty, req, sqlUser, sqlTx, product, cart, cartResp, engine, now,
          orders, chk, orderResp, sqlCart, sqlOrders, sqlOrderResp,
          deliveries, deliveryResp, sqlDeliveries, sqlDeliveryResp>>

\* what the routes of one part leave alone
notLoyalty ==
  <<sqlVars, cartVars, envVars, orderVars, sqlOrderVars, deliveryVars, sqlDeliveryVars>>
notSql ==
  <<loyaltyVars, cartVars, envVars, orderVars, sqlOrderVars, deliveryVars, sqlDeliveryVars>>
notCart ==
  <<loyaltyVars, sqlVars, envVars, orderVars, sqlOrderVars, deliveryVars, sqlDeliveryVars>>
notOrder ==
  <<loyaltyVars, sqlVars, product, cartResp, envVars, sqlOrderVars, deliveryVars,
    sqlDeliveryVars>>
notSqlOrder ==
  <<loyaltyVars, sqlVars, cartVars, engine, orderVars, deliveryVars, sqlDeliveryVars>>
notSqlDelivery ==
  <<loyaltyVars, sqlVars, cartVars, envVars, orderVars, deliveryVars>>
notDelivery ==
  <<loyaltyVars, sqlVars, cartVars, envVars, orderVars, sqlOrderVars, sqlDeliveryVars>>

NoClock == [weekday |-> "none", hour |-> 0]

IdleChk ==
  [pc |-> "idle", user |-> "u1", clock |-> NoClock, cart |-> NewCart,
   order |-> orderFromCart("u1", NewCart), errors |-> {}, stale |-> FALSE,
   result |-> "none", error |-> "none"]

\* a date or a number that is not set
Null == -1

\* no delivery request has been answered yet
NoDeliveryResp == [op |-> "none", delivery |-> 0, code |-> "none", by |-> "none", lat |-> 0]

IdleReq == [pc |-> "idle", op |-> "none", amount |-> 0, orig |-> NewLoyalty, result |-> "none"]

Init ==
  /\ loyalty = NewLoyalty
  /\ req = [r \in Reqs |-> IdleReq]
  /\ sqlUser = [loyalty_points |-> 0, loyalty_tier |-> "bronze"]
  /\ sqlTx = << >>
  /\ product = [p \in Products |-> [price |-> 35000, isAvailable |-> TRUE, stockQuantity |-> -1]]
  /\ cart = [u \in Users |-> NewCart]
  /\ cartResp = "none"
  /\ engine \in Engines
  /\ now = 0
  /\ orders = << >>
  /\ chk = [r \in Reqs |-> IdleChk]
  /\ orderResp = [op |-> "none", order |-> 0, code |-> "none"]
  /\ sqlCart = [p \in Products |-> 0]
  /\ sqlOrders = << >>
  /\ sqlOrderResp = "none"
  /\ deliveries = << >>
  /\ deliveryResp = NoDeliveryResp
  /\ sqlDeliveries = << >>
  /\ sqlDeliveryResp = NoDeliveryResp

(***************************************************************************)
(* Loyalty routes (routes/loyalty.js).  A handler reads the document with  *)
(* findOne (Load) and, after the await, runs the model method and saves    *)
(* (Commit); other handlers may run between the two.                       *)
(***************************************************************************)
\* Loyalty.findOne of POST /use-points, /admin/add-points, /admin/adjust-points
Load(r, op, amount) ==
  /\ req[r].pc = "idle"
  /\ Len(loyalty.transactions) < MaxTx
  /\ IF ~loyalty.exists /\ op # "add"
       THEN req' = [req EXCEPT ![r] = [pc |-> "done", op |-> op, amount |-> amount,
                                       orig |-> NewLoyalty, result |-> "notfound"]]
       ELSE req' = [req EXCEPT ![r] = [pc |-> "loaded", op |-> op, amount |-> amount,
                                       orig |-> loyalty, result |-> "none"]]
  /\ UNCHANGED <<loyalty, notLoyalty>>

\* the outcome of a handler's method call on the document it loaded
Outcome(r) ==
  LET o == req[r].orig
      a == req[r].amount
  IN CASE req[r].op = "use" ->
            IF ~canUsePoints(o, a)
              THEN [result |-> "insufficient", doc |-> o]
              ELSE LET u == usePoints(o, a) IN
                   IF u.threw THEN [result |-> "error", doc |-> o]
                   ELSE [result |-> "ok", doc |-> preSave(u.doc)]
       [] req[r].op = "add" -> [result |-> "ok", doc |-> preSave(addPoints(o, a))]
       [] req[r].op = "adjust" -> [result |-> "ok", doc |-> preSave(adjustPoints(o, a))]

\* the rest of the handler: method, validation, save, response
Commit(r) ==
  /\ req[r].pc = "loaded"
  /\ LET out == Outcome(r) IN
       IF out.result # "ok"
         THEN /\ req' = [req EXCEPT ![r].pc = "done", ![r].result = out.result]
              /\ UNCHANGED loyalty
         ELSE IF ~validPoints(out.doc) \/ (~req[r].orig.exists /\ loyalty.exists)
           THEN \* ValidationError, or the unique index on user rejects a second insert
                /\ req' = [req EXCEPT ![r].pc = "done", ![r].result = "error"]
                /\ UNCHANGED loyalty
           ELSE /\ loyalty' = storeDoc(loyalty, req[r].orig, out.doc)
                /\ req' = [req EXCEPT ![r].pc = "done", ![r].result = "ok"]
  /\ UNCHANGED notLoyalty

\* the response has been sent; the handler can serve the next request
Respond(r) ==
  /\ req[r].pc = "done"
  /\ req' = [req EXCEPT ![r] = IdleReq]
  /\ UNCHANGED <<loyalty, notLoyalty>>

LoadAny(r) ==
  \/ \E a \in UseAmounts : Load(r, "use", a)
  \/ \E a \in AddAmounts : Load(r, "add", a)
  \/ \E a \in AdjustAmounts : Load(r, "adjust", a)

\* requests served one at a time
NextLoyaltySeq == LoadAny(1) \/ Commit(1) \/ Respond(1)

\* requests that interleave
NextLoyalty == \E r \in Reqs : LoadAny(r) \/ Commit(r) \/ Respond(r)

SpecLoyaltySeq == Init /\ [][NextLoyaltySeq]_vars
SpecLoyalty == Init /\ [][NextLoyalty]_vars


(***************************************************************************)
(* Product routes.  PUT /api/products/:id stores the body's fields.        *)
(***************************************************************************)
EditProduct(p, price, isAvailable, stockQuantity) ==
  /\ product' = [product EXCEPT ![p].price = price, ![p].isAvailable = isAvailable,
                                ![p].stockQuantity = stockQuantity]
  /\ UNCHANGED <<cart, cartResp, notCart>>

(***************************************************************************)
(* Cart routes.  Each handler finds the user's cart, calls one model       *)
(* method and answers; the carts of a user are handled one request at a    *)
(* time.                                                                   *)
(***************************************************************************)
\* validateCartItem: body('quantity').isInt({ min: 1, max: 50 })
CartItemMax == 50

validateCartItem(quantity) == quantity \in 1..CartItemMax

\* the answer of a handler that changed nothing
CartRefused(code) ==
  /\ cartResp' = code
  /\ UNCHANGED <<product, cart, notCart>>

\* the schema default of expiresAt: 24 hours, in ticks of the clock
CartTtl == 2

\* Cart.findOne({ user }), and new Cart({...}) when there is none: expiresAt
\* gets its default
foundOrNew(u) ==
  IF cart[u].exists THEN cart[u] ELSE [NewCart EXCEPT !.expiresAt = now + CartTtl]

\* cartSchema.methods.isExpired
isExpired(c) == now > c.expiresAt

\* GET /api/cart: creates the user's cart when there is none, looks up the
\* availability of every line's product and saves the cart again
GetCart(u, clock) ==
  IF \E i \in 1..Len(cart[u].items) :
       isAvailableNow(product[cart[u].items[i].product], cart[u].items[i].product,
                      currentDay(engine, clock)) = "throws"
    THEN CartRefused("500")
    ELSE /\ cart' = [cart EXCEPT ![u] = cartSave(foundOrNew(u))]
         /\ cartResp' = "ok"
         /\ UNCHANGED <<product, notCart>>

\* POST /api/cart/add-item
AddItemRequest(u, p, quantity, customization, clock) ==
  LET avail == isAvailableNow(product[p], p, currentDay(engine, clock)) IN
  IF ~validateCartItem(quantity) THEN CartRefused("400")
  ELSE IF avail = "throws" THEN CartRefused("500")
  ELSE IF avail = "false" THEN CartRefused("400")
  ELSE IF quantity > MaxOrderQuantity THEN CartRefused("400")
  ELSE /\ cart' = [cart EXCEPT ![u] =
                     cartAddItem(foundOrNew(u), p, quantity, product[p].price, customization)]
       /\ cartResp' = "ok"
       /\ UNCHANGED <<product, notCart>>

\* the quantity of the user's cart line of a product, 0 when there is none
lineQuantity(u, p) ==
  LET line == lineIndex(cart[u].items, p) IN
  IF line = 0 THEN 0 ELSE cart[u].items[line].quantity

\* an add-item request that keeps the line within the small quantities
AddItem(u, p, quantity, customization, clock) ==
  /\ lineQuantity(u, p) + quantity <= MaxQty
  /\ AddItemRequest(u, p, quantity, customization, clock)

\* PUT /api/cart/update-item/:productId
UpdateItem(u, p, quantity) ==
  IF quantity < 1 THEN CartRefused("400")
  ELSE IF quantity > MaxOrderQuantity THEN CartRefused("400")
  ELSE IF ~cart[u].exists THEN CartRefused("404")
  ELSE LET r == cartUpdateItemQuantity(cart[u], p, quantity) IN
       IF r.threw THEN CartRefused("500")
       ELSE /\ cart' = [cart EXCEPT ![u] = r.cart]
            /\ cartResp' = "ok"
            /\ UNCHANGED <<product, notCart>>

\* DELETE /api/cart/remove-item/:productId
RemoveItem(u, p) ==
  IF ~cart[u].exists THEN CartRefused("404")
  ELSE /\ cart' = [cart EXCEPT ![u] = cartRemoveItem(cart[u], p)]
       /\ cartResp' = "ok"
       /\ UNCHANGED <<product, notCart>>

\* DELETE /api/cart/clear
ClearCart(u) ==
  IF ~cart[u].exists THEN CartRefused("404")
  ELSE /\ cart' = [cart EXCEPT ![u] = cartClearCart(cart[u])]
       /\ cartResp' = "ok"
       /\ UNCHANGED <<product, notCart>>

\* PUT /api/cart/delivery
SetDelivery(u, type, hasAddress) ==
  IF ~cart[u].exists THEN CartRefused("404")
  ELSE /\ cart' = [cart EXCEPT ![u] =
                     cartSave([cart[u] EXCEPT
                       !.dtype = type,
                       !.fee = IF type = "delivery" /\ hasAddress THEN DeliveryFeeFlat
                               ELSE IF type = "pickup" \/ type = "dine-in" THEN 0
                               ELSE @])]
       /\ cartResp' = "ok"
       /\ UNCHANGED <<product, notCart>>

\* PUT /api/cart/payment with loyaltyPointsUsed in the body
SetPayment(u, points) ==
  IF ~cart[u].exists THEN CartRefused("404")
  ELSE /\ cart' = [cart EXCEPT ![u] = cartUseLoyaltyPoints(cart[u], points)]
       /\ cartResp' = "ok"
       /\ UNCHANGED <<product, notCart>>

\* POST /api/cart/apply-discount
ApplyDiscount(u, discountAmount) ==
  IF ~cart[u].exists THEN CartRefused("404")
  ELSE /\ cart' = [cart EXCEPT ![u] = cartApplyDiscount(cart[u], discountAmount)]
       /\ cartResp' = "ok"
       /\ UNCHANGED <<product, notCart>>

CartRequest(u) ==
  \/ \E k \in Clocks : GetCart(u, k)
  \/ \E p \in Products, q \in Quantities, c \in Customizations, k \in Clocks :
        AddItem(u, p, q, c, k)
  \/ \E p \in Products, q \in Quantities : UpdateItem(u, p, q)
  \/ \E p \in Products : RemoveItem(u, p)
  \/ ClearCart(u)
  \/ \E t \in DeliveryTypes, a \in BOOLEAN : SetDelivery(u, t, a)
  \/ \E n \in PointChoices : SetPayment(u, n)
  \/ \E d \in DiscountAmounts : ApplyDiscount(u, d)

\* the cart of one user, with the catalogue's prices and availability changing
NextCart ==
  \/ CartRequest("u1")
  \/ \E price \in Prices : EditProduct("p1", price, TRUE, -1)
SpecCart == Init /\ [][NextCart]_vars

(***************************************************************************)
(* SQL loyalty routes.  The driver is synchronous: a handler runs from its *)
(* first statement to its response without interleaving.                   *)
(***************************************************************************)
SqlSilverPoints == 100
SqlGoldPoints == 250

\* POST /use-points: the tier chosen after the balance was lowered
sqlUseTier(points, tier) ==
  IF points < SqlSilverPoints /\ tier # "bronze" THEN "bronze"
  ELSE IF points < SqlGoldPoints /\ tier # "silver" THEN "silver"
  ELSE IF points >= SqlGoldPoints /\ tier # "gold" THEN "gold"
  ELSE tier

\* POST /admin/add-points: the tier chosen for the new balance
sqlAddTier(newPoints) ==
  IF newPoints >= SqlGoldPoints THEN "gold"
  ELSE IF newPoints >= SqlSilverPoints THEN "silver"
  ELSE "bronze"

\* POST /use-points (SQL)
SqlUsePoints(points) ==
  /\ Len(sqlTx) < MaxSqlTx
  /\ sqlUser.loyalty_points >= points
  /\ sqlTx' = Append(sqlTx, [type |-> "used", points |-> -points])
  /\ LET left == sqlUser.loyalty_points - points IN
       sqlUser' = [loyalty_points |-> left,
                   loyalty_tier |-> sqlUseTier(left, sqlUser.loyalty_tier)]
  /\ UNCHANGED notSql

\* POST /use-points (SQL), rejected: 'Pontos insuficientes'
SqlUsePointsRejected(points) ==
  /\ sqlUser.loyalty_points < points
  /\ UNCHANGED vars

\* POST /admin/add-points (SQL)
SqlAddPoints(points) ==
  /\ Len(sqlTx) < MaxSqlTx
  /\ sqlTx' = Append(sqlTx, [type |-> "bonus", points |-> points])
  /\ LET newPoints == sqlUser.loyalty_points + points IN
       sqlUser' = [loyalty_points |-> newPoints, loyalty_tier |-> sqlAddTier(newPoints)]
  /\ UNCHANGED notSql

NextSql ==
  \E p \in SqlAmounts : SqlUsePoints(p) \/ SqlUsePointsRejected(p) \/ SqlAddPoints(p)

\* both loyalty back ends, requests served one at a time
NextTier == NextLoyaltySeq \/ NextSql
SpecTier == Init /\ [][NextTier]_vars

Next == NextLoyalty \/ NextSql
Spec == Init /\ [][Next]_vars

(***************************************************************************)
(* The clock                                                               *)
(***************************************************************************)
\* getFullYear, getMonth, getDate of a tick: two ticks to a calendar day
dayOf(t) == t \div 2

Tick ==
  /\ now < MaxNow
  /\ now' = now + 1
  /\ UNCHANGED <<loyaltyVars, sqlVars, cartVars, engine, orderVars, sqlOrderVars,
                 deliveryVars, sqlDeliveryVars>>

\* more than the 24 hours of a cart pass at once
Elapse ==
  /\ now <= MaxNow
  /\ now' = now + CartTtl + 1
  /\ UNCHANGED <<loyaltyVars, sqlVars, cartVars, engine, orderVars, sqlOrderVars,
                 deliveryVars, sqlDeliveryVars>>

(***************************************************************************)
(* GET /api/loyalty/profile creates the user's Loyalty document when there *)
(* is none.                                                                *)
(***************************************************************************)
GetProfile ==
  /\ loyalty' = IF loyalty.exists THEN loyalty
                ELSE storeDoc(loyalty, NewLoyalty, preSave(NewLoyalty))
  /\ UNCHANGED <<req, notLoyalty>>

(***************************************************************************)
(* POST /api/orders/create (routes/orders.js).  The handler awaits five    *)
(* operations of the database one after another: Cart.findOne,             *)
(* Loyalty.findOne, the pre-save hook's findOne of the day's last order,   *)
(* the insert of the order and the save of the cleared cart.  Each is one  *)
(* step; other handlers may run between two steps.                         *)
(***************************************************************************)
\* the Loyalty document of a user: only u1 can have one
hasLoyalty(u) == u = "u1" /\ loyalty.exists

\* the handler answers without having written anything
ChkRefuse(r, u, clock, code, error, names) ==
  chk' = [chk EXCEPT ![r] = [IdleChk EXCEPT !.pc = "done", !.user = u, !.clock = clock,
                                           !.result = code, !.error = error,
                                           !.errors = names]]

\* Cart.findOne with populate, the isEmpty test, the availability loop and
\* new Order(...), calculateTotal, calculateLoyaltyPoints
ChkLoad(r, u, clock) ==
  LET c == cart[u]
      avail(i) == isAvailableNow(product[c.items[i].product], c.items[i].product,
                                 currentDay(engine, clock))
      lines == 1..Len(c.items)
  IN
  /\ chk[r].pc = "idle"
  /\ Len(orders) < MaxOrders
  /\ IF ~c.exists \/ c.items = << >>
       THEN ChkRefuse(r, u, clock, "400", "empty", {})
     ELSE IF \E i \in lines : avail(i) = "throws"
       THEN ChkRefuse(r, u, clock, "500", "RangeError", {})
     ELSE IF \E i \in lines : avail(i) = "false"
       THEN ChkRefuse(r, u, clock, "400", "unavailable",
                      {c.items[i].product : i \in {j \in lines : avail(j) = "false"}})
     ELSE chk' = [chk EXCEPT ![r] = [IdleChk EXCEPT !.pc = "built", !.user = u,
                                                    !.clock = clock, !.cart = c,
                                                    !.order = orderFromCart(u, c)]]
  /\ UNCHANGED <<orders, orderResp, cart, notOrder>>

\* Loyalty.findOne: a document that is found has no getLoyaltyDiscount method
\* (it is a method of the user schema) and the call raises a TypeError;
\* otherwise order.save() starts and its hook reads the date
ChkLoyalty(r) ==
  /\ chk[r].pc = "built"
  /\ IF hasLoyalty(chk[r].user)
       THEN chk' = [chk EXCEPT ![r].pc = "done", ![r].result = "500",
                               ![r].error = "TypeError"]
       ELSE chk' = [chk EXCEPT ![r].pc = "number",
                               ![r].order.orderNumber.day = dayOf(now)]
  /\ UNCHANGED <<orders, orderResp, cart, notOrder>>

\* the hook's findOne of the day's last order: the order gets its number
ChkNumber(r) ==
  LET day == chk[r].order.orderNumber.day IN
  /\ chk[r].pc = "number"
  /\ chk' = [chk EXCEPT ![r].pc = "insert",
                        ![r].order.orderNumber =
                           formatOrderNumber(day, nextSequence(orders, day))]
  /\ UNCHANGED <<orders, orderResp, cart, notOrder>>

\* the insert: the unique index on orderNumber rejects a number that is taken
ChkInsert(r) ==
  /\ chk[r].pc = "insert"
  /\ IF \E i \in 1..Len(orders) : orders[i].orderNumber = chk[r].order.orderNumber
       THEN /\ chk' = [chk EXCEPT ![r].pc = "done", ![r].result = "500",
                                  ![r].error = "E11000"]
            /\ UNCHANGED orders
       ELSE /\ orders' = Append(orders, chk[r].order)
            /\ chk' = [chk EXCEPT ![r].pc = "clear"]
  /\ UNCHANGED <<orderResp, cart, notOrder>>

\* cart.clearCart() on the cart the handler loaded.  The save replaces the
\* items array and carries the version the handler read: it fails with a
\* VersionError when another save has replaced the array since.
ChkClear(r) ==
  LET u == chk[r].user IN
  /\ chk[r].pc = "clear"
  /\ IF chk[r].stale
       THEN /\ chk' = [chk EXCEPT ![r].pc = "done", ![r].result = "500",
                                  ![r].error = "VersionError"]
            /\ UNCHANGED cart
       ELSE /\ cart' = [cart EXCEPT ![u] = cartClearCart(chk[r].cart)]
            /\ chk' = [q \in Reqs |->
                         IF q = r THEN [chk[r] EXCEPT !.pc = "done", !.result = "201"]
                         ELSE IF chk[q].user = u /\ chk[q].pc \notin {"idle", "done"}
                           THEN [chk[q] EXCEPT !.stale = TRUE]
                         ELSE chk[q]]
  /\ UNCHANGED <<orders, orderResp, notOrder>>

\* the response has been sent
ChkRespond(r) ==
  /\ chk[r].pc = "done"
  /\ chk' = [chk EXCEPT ![r] = IdleChk]
  /\ UNCHANGED <<orders, orderResp, cart, notOrder>>

Checkout(r, u) ==
  \/ \E k \in Clocks : ChkLoad(r, u, k)
  \/ ChkLoyalty(r)
  \/ ChkNumber(r)
  \/ ChkInsert(r)
  \/ ChkClear(r)
  \/ ChkRespond(r)

(***************************************************************************)
(* Accounts.  The users collection is not modelled: the role of every      *)
(* account is fixed.                                                       *)
(***************************************************************************)
Drivers == {"d1", "d2"}

\* the accounts that send the driver requests of the model
Requesters == Drivers \cup {"u1"}

\* req.user.role, and the role matched by User.findOne({ _id, role: 'driver' })
roleOf(a) == IF a \in Drivers THEN "driver" ELSE "customer"

(***************************************************************************)
(* Delivery model (models/Contact.js, deliverySchema)                      *)
(***************************************************************************)
\* the enum of status.current and of status.history[].status
DeliveryStatuses ==
  {"pending", "confirmed", "preparing", "ready", "assigned", "picked_up",
   "out_for_delivery", "delivered", "failed", "cancelled"}

\* the paths of the schema that are required
RequiredPaths ==
  {"order", "user", "address", "deliveryFee", "distance", "estimatedDuration",
   "customerContact.phone"}

\* a document built with every required path: the defaults give driver null,
\* status.current 'pending' and empty arrays
NewDeliveryDoc(order) ==
  [order |-> order, driver |-> "none", status |-> "pending", history |-> << >>,
   deliveryNotes |-> "", lastLocation |-> Null, locationHistory |-> << >>,
   actualDelivery |-> Null]

\* the enum validators of save()
deliveryValid(doc) ==
  /\ doc.status \in DeliveryStatuses
  /\ \A k \in 1..Len(doc.history) : doc.history[k].status \in DeliveryStatuses

\* pre('save'): push a history entry when status.current was modified
deliveryPreSave(orig, doc) ==
  IF doc.status # orig.status
    THEN [doc EXCEPT !.history =
            Append(@, [status |-> doc.status,
                       note |-> IF doc.deliveryNotes # "" THEN doc.deliveryNotes
                                ELSE "Status atualizado",
                       updatedBy |-> doc.driver])]
    ELSE doc

\* the entries a route pushes: { status, timestamp, description }; the
\* schema of the entries has no description, which is dropped
routeEntry(status) == [status |-> status, note |-> "none", updatedBy |-> "none"]

\* the number of entries tracking.locationHistory keeps
LocationHistoryLimit == 100

\* array.slice(-n)
sliceLast(seq, n) ==
  IF Len(seq) <= n THEN seq ELSE SubSeq(seq, Len(seq) - n + 1, Len(seq))

\* methods.updateLocation(lat, lng, accuracy) before its save(); a position
\* is its latitude
updateLocation(doc, lat) ==
  LET pushed == Append(doc.locationHistory, lat) IN
  [doc EXCEPT !.lastLocation = lat,
              !.locationHistory =
                 IF Len(pushed) > LocationHistoryLimit
                   THEN sliceLast(pushed, LocationHistoryLimit) ELSE pushed]

\* methods.assignDriver(driverId) before its save()
assignDriver(doc, driverId) == [doc EXCEPT !.driver = driverId, !.status = "assigned"]

(***************************************************************************)
(* Order routes and the Order model's methods on a stored order.  The      *)
(* handler's findById and the method's save are taken as one step.         *)
(***************************************************************************)
Statuses ==
  {"pending", "confirmed", "preparing", "ready", "out_for_delivery", "delivered",
   "cancelled", "refunded"}

\* the statuses the requests of the model ask for
StatusChoices == {"confirmed", "delivered"}

\* the notes the requests of the model carry; "" is a request without a note
Notes == {"", "late"}

\* the answer of an order request that changed nothing
OrderRefused(op, i, code) ==
  /\ orderResp' = [op |-> op, order |-> i, code |-> code]
  /\ UNCHANGED <<orders, chk, cart, notOrder>>

\* the answer of an order request that saved the document
OrderSaved(op, i, doc) ==
  /\ orders' = [orders EXCEPT ![i] = doc]
  /\ orderResp' = [op |-> op, order |-> i, code |-> "ok"]
  /\ UNCHANGED <<chk, cart, notOrder>>

\* order.updateStatus(newStatus, note, updatedBy) and its outcome
UpdateStatusOf(op, i, newStatus, note, updatedBy) ==
  LET r == updateStatus(orders[i], newStatus, note, updatedBy) IN
  /\ Len(orders[i].history) < MaxHistory
  /\ IF r.threw THEN OrderRefused(op, i, "500") ELSE OrderSaved(op, i, r.doc)

\* PUT /api/orders/:id/status, by a member of staff
PutStatus(i, status, note) == UpdateStatusOf("status", i, status, note, "staff")

\* DELETE /api/orders/:id, by the customer or a member of staff
CancelOrder(i) ==
  IF orders[i].status \notin {"pending", "confirmed"} THEN OrderRefused("cancel", i, "400")
  ELSE UpdateStatusOf("cancel", i, "cancelled", "Cancelado pelo cliente", "customer")

\* POST /api/orders/:id/refund, by an administrator
RefundOrder(i) ==
  IF orders[i].payment.status # "paid" THEN OrderRefused("refund", i, "400")
  ELSE UpdateStatusOf("refund", i, "refunded", "Reembolso", "admin")

\* order.updateStatus(newStatus, note) without updatedBy
OrderUpdateStatus(i, status, note) ==
  UpdateStatusOf("updateStatus", i, status, note, "none")

\* order.addItem(productId, quantity, unitPrice)
OrderAddItem(i, p, quantity) ==
  /\ Len(orders[i].items) < MaxQty
  /\ OrderSaved("addItem", i, orderAddItem(orders[i], p, quantity, product[p].price, << >>))

\* order.removeItem(itemIndex)
OrderRemoveItem(i, itemIndex) ==
  LET r == orderRemoveItem(orders[i], itemIndex) IN
  IF r.threw THEN OrderRefused("removeItem", i, "500")
  ELSE OrderSaved("removeItem", i, r.doc)

\* order.applyLoyaltyDiscount(discountPercentage)
OrderApplyLoyaltyDiscount(i, discountPercentage) ==
  OrderSaved("applyLoyaltyDiscount", i, applyLoyaltyDiscount(orders[i], discountPercentage))

\* the Order model's methods that change the lines or the amounts
OrderItemRequest(i) ==
  \/ OrderAddItem(i, "p2", 1)
  \/ \E n \in 1..2 : OrderRemoveItem(i, n)
  \/ OrderApplyLoyaltyDiscount(i, 1)

\* the routes and the method that change the status
OrderStatusRequest(i) ==
  \/ \E st \in StatusChoices, n \in Notes : PutStatus(i, st, n)
  \/ CancelOrder(i)
  \/ RefundOrder(i)
  \/ \E st \in StatusChoices, n \in Notes : OrderUpdateStatus(i, st, n)

(***************************************************************************)
(* Delivery routes (Mongoose) and the Delivery model's methods on a stored *)
(* delivery.  The handler's findById and its save are taken as one step.   *)
(***************************************************************************)
\* the statuses the update-status requests of the model ask for
DeliveryStatusChoices == {"picked_up", "delivered"}

\* the answer of a delivery request that stored nothing
DeliveryRefused(op, d, by, lat, code) ==
  /\ deliveryResp' = [op |-> op, delivery |-> d, code |-> code, by |-> by, lat |-> lat]
  /\ UNCHANGED <<deliveries, notDelivery>>

\* delivery.save() of a loaded document and the answer of the request
DeliverySave(op, d, by, lat, doc) ==
  IF ~deliveryValid(doc) THEN DeliveryRefused(op, d, by, lat, "500")
  ELSE /\ deliveries' = [deliveries EXCEPT ![d] = deliveryPreSave(deliveries[d], doc)]
       /\ deliveryResp' = [op |-> op, delivery |-> d, code |-> "200", by |-> by, lat |-> lat]
       /\ UNCHANGED notDelivery

\* new Delivery({ ...every required path }).save()
NewDelivery(order) ==
  /\ Len(deliveries) < MaxDeliveries
  /\ deliveries' = Append(deliveries, NewDeliveryDoc(order))
  /\ deliveryResp' = [op |-> "new", delivery |-> Len(deliveries) + 1, code |-> "200",
                      by |-> "none", lat |-> 0]
  /\ UNCHANGED notDelivery

\* the paths POST /admin/create gives to new Delivery
CreatePaths ==
  {"order", "user", "address", "specialInstructions", "priority", "estimatedTime", "status"}

\* POST /api/delivery/admin/create
DeliveryCreate(order) ==
  IF order \notin 1..Len(orders) THEN DeliveryRefused("create", order, "staff", 0, "404")
  ELSE IF \E d \in 1..Len(deliveries) : deliveries[d].order = order
    THEN DeliveryRefused("create", order, "staff", 0, "400")
  ELSE IF ~(RequiredPaths \subseteq CreatePaths)
    THEN \* the required validators reject the save
         DeliveryRefused("create", order, "staff", 0, "500")
  ELSE /\ Len(deliveries) < MaxDeliveries
       /\ deliveries' = Append(deliveries,
             [NewDeliveryDoc(order) EXCEPT !.history =
                <<routeEntry("pending"),
                  [status |-> "pending", note |-> "Status atualizado", updatedBy |-> "none"]>>])
       /\ deliveryResp' = [op |-> "create", delivery |-> order, code |-> "201",
                           by |-> "staff", lat |-> 0]
       /\ UNCHANGED notDelivery

\* PUT /api/delivery/admin/:deliveryId/assign-driver
AssignDriver(d, driverId) ==
  /\ Len(deliveries[d].history) < MaxDeliveryHistory
  /\ IF roleOf(driverId) # "driver" THEN DeliveryRefused("assign", d, driverId, 0, "404")
     ELSE DeliverySave("assign", d, driverId, 0,
            [deliveries[d] EXCEPT !.driver = driverId, !.status = "assigned",
                                  !.history = Append(@, routeEntry("assigned"))])

\* delivery.assignDriver(driverId)
DeliveryAssignDriver(d, driverId) ==
  /\ Len(deliveries[d].history) < MaxDeliveryHistory
  /\ DeliverySave("assignDriver", d, driverId, 0, assignDriver(deliveries[d], driverId))

\* PUT /api/delivery/admin/:deliveryId/update-status, without a location
PutDeliveryStatus(d, status) ==
  /\ Len(deliveries[d].history) < MaxDeliveryHistory
  /\ DeliverySave("status", d, "staff", 0,
       [deliveries[d] EXCEPT !.status = status, !.history = Append(@, routeEntry(status))])

\* the driver's next position: the positions of a delivery are numbered
nextPosition(doc) == IF doc.lastLocation = Null THEN 1 ELSE doc.lastLocation + 1

\* delivery.updateLocation(lat, lng)
DeliveryUpdateLocation(d) ==
  LET lat == nextPosition(deliveries[d]) IN
  /\ lat <= MaxReports
  /\ DeliverySave("updateLocation", d, "none", lat, updateLocation(deliveries[d], lat))

\* PUT /api/delivery/driver/:deliveryId/update-location.  The handler sets
\* tracking.currentLocation and tracking.lastUpdate, which are not paths of
\* the schema and are not stored.
PutLocation(d, by, lat) ==
  IF roleOf(by) # "driver" THEN DeliveryRefused("location", d, by, lat, "403")
  ELSE IF deliveries[d].driver = "none"
    THEN \* delivery.driver.toString() of null
         DeliveryRefused("location", d, by, lat, "500")
  ELSE IF deliveries[d].driver # by THEN DeliveryRefused("location", d, by, lat, "403")
  ELSE DeliverySave("location", d, by, lat,
         IF deliveries[d].status = "assigned"
           THEN [deliveries[d] EXCEPT !.status = "in_transit",
                                      !.history = Append(@, routeEntry("in_transit"))]
           ELSE deliveries[d])

\* PUT /api/delivery/driver/:deliveryId/complete.  completedAt is not a path
\* of the schema; the update of the order that follows the save names the
\* paths status and statusHistory, which the Order schema does not have, and
\* changes no order.
DeliveryComplete(d, by) ==
  IF roleOf(by) # "driver" THEN DeliveryRefused("complete", d, by, 0, "403")
  ELSE IF deliveries[d].driver = "none"
    THEN DeliveryRefused("complete", d, by, 0, "500")
  ELSE IF deliveries[d].driver # by THEN DeliveryRefused("complete", d, by, 0, "403")
  ELSE DeliverySave("complete", d, by, 0,
         [deliveries[d] EXCEPT !.status = "completed",
                               !.history = Append(@, routeEntry("completed"))])

(***************************************************************************)
(* SQL cart and order routes.  The driver is synchronous: a handler runs   *)
(* from its first statement to its response without interleaving.          *)
(***************************************************************************)
\* Math.floor(Math.random() * 1000), the draws of the model
RandomDraws == {7, 42}

\* the items of the request bodies of the model
SqlBodies ==
  {<< >>,
   <<[productId |-> "p1", quantity |-> 1]>>,
   <<[productId |-> "p2", quantity |-> 2], [productId |-> "p1", quantity |-> 1]>>}

\* POST /api/cart/add
SqlCartAdd(p, quantity) ==
  /\ sqlCart[p] + quantity <= MaxQty
  /\ IF ~product[p].isAvailable
       THEN /\ sqlOrderResp' = "400"
            /\ UNCHANGED sqlCart
       ELSE /\ sqlCart' = [sqlCart EXCEPT ![p] = @ + quantity]
            /\ sqlOrderResp' = "ok"
  /\ UNCHANGED <<sqlOrders, notSqlOrder, now>>

\* `SP${Date.now()}${Math.floor(Math.random() * 1000)}`: Date.now() has a
\* fixed width, so two numbers are equal when both parts are
sqlOrderNumber(ms, rnd) == [ms |-> ms, rnd |-> rnd]

\* the order_items rows built by the loop of POST /api/orders
RECURSIVE sqlOrderItems(_, _)
sqlOrderItems(items, prod) ==
  IF items = << >> THEN << >>
  ELSE <<[product |-> Head(items).productId, quantity |-> Head(items).quantity,
          unitPrice |-> prod[Head(items).productId].price,
          totalPrice |-> Head(items).quantity * prod[Head(items).productId].price]>>
         \o sqlOrderItems(Tail(items), prod)

\* POST /api/orders
SqlCreateOrder(items, deliveryType, rnd) ==
  LET orderNumber == sqlOrderNumber(now, rnd)
      orderItems == sqlOrderItems(items, product)
      subtotal == orderSubtotal(orderItems)
      deliveryFee == IF deliveryType = "delivery" THEN DeliveryFeeFlat ELSE 0
      tax == (subtotal * TaxPercent) \div 100
  IN
  /\ Len(sqlOrders) < MaxSqlOrders
  /\ IF items = << >>
       THEN /\ sqlOrderResp' = "400"
            /\ UNCHANGED <<sqlOrders, sqlCart>>
     ELSE IF \E i \in 1..Len(items) : ~product[items[i].productId].isAvailable
       THEN /\ sqlOrderResp' = "400"
            /\ UNCHANGED <<sqlOrders, sqlCart>>
     ELSE IF \E j \in 1..Len(sqlOrders) : sqlOrders[j].order_number = orderNumber
       THEN \* the UNIQUE constraint of order_number rejects the INSERT
            /\ sqlOrderResp' = "constraint"
            /\ UNCHANGED <<sqlOrders, sqlCart>>
     ELSE /\ sqlOrders' = Append(sqlOrders,
                 [order_number |-> orderNumber, items |-> orderItems,
                  subtotal |-> subtotal, tax |-> tax, delivery_fee |-> deliveryFee,
                  final_amount |-> subtotal + deliveryFee + tax, status |-> "pending",
                  delivery_type |-> deliveryType, history |-> << >>,
                  actual_delivery |-> Null])
          /\ sqlCart' = [p \in Products |-> 0]
          /\ sqlOrderResp' = "201"
  /\ UNCHANGED <<notSqlOrder, now>>

\* PUT /api/orders/:orderId/status: the UPDATE of the row and the INSERT
\* into order_status_history
SqlPutStatus(i, status, note) ==
  /\ Len(sqlOrders[i].history) < MaxHistory
  /\ sqlOrders' = [sqlOrders EXCEPT
                     ![i].status = status,
                     ![i].history = Append(@, [status |-> status, note |-> note,
                                               updated_by |-> "staff"])]
  /\ sqlOrderResp' = "ok"
  /\ UNCHANGED <<sqlCart, notSqlOrder, now>>

(***************************************************************************)
(* SQL delivery routes (routes/delivery.js)                                *)
(***************************************************************************)
\* the answer of a delivery request that changed no row
SqlDeliveryRefused(op, d, by, code) ==
  /\ sqlDeliveryResp' = [op |-> op, delivery |-> d, code |-> code, by |-> by, lat |-> 0]
  /\ UNCHANGED <<sqlDeliveries, sqlOrderVars, notSqlDelivery>>

forDelivery_Any(delivery_type) == delivery_type \notin {"dine-in"}

\* delivery_type of an order that needs a delivery
forDelivery(delivery_type) == delivery_type \notin {"pickup", "dine-in"}

\* POST /api/delivery/admin/create
SqlDeliveryCreate(orderId, driverId) ==
  IF orderId \notin 1..Len(sqlOrders)
    THEN SqlDeliveryRefused("create", orderId, "staff", "404")
  ELSE IF ~forDelivery(sqlOrders[orderId].delivery_type)
    THEN SqlDeliveryRefused("create", orderId, "staff", "400")
  ELSE IF \E d \in 1..Len(sqlDeliveries) : sqlDeliveries[d].order_id = orderId
    THEN SqlDeliveryRefused("create", orderId, "staff", "400")
  ELSE /\ Len(sqlDeliveries) < MaxDeliveries
       /\ sqlDeliveries' = Append(sqlDeliveries,
             [order_id |-> orderId, driver_id |-> driverId, status |-> "pending",
              actual_delivery |-> Null])
       /\ sqlDeliveryResp' = [op |-> "create", delivery |-> orderId, code |-> "201",
                              by |-> "staff", lat |-> 0]
       /\ UNCHANGED <<sqlOrderVars, notSqlDelivery>>

\* PUT /api/delivery/driver/complete
SqlDeliveryComplete(d, by) ==
  IF roleOf(by) # "driver" THEN SqlDeliveryRefused("complete", d, by, "403")
  ELSE IF d \notin 1..Len(sqlDeliveries) \/ sqlDeliveries[d].driver_id # by
    THEN SqlDeliveryRefused("complete", d, by, "404")
  ELSE /\ sqlDeliveries' = [sqlDeliveries EXCEPT ![d].status = "delivered",
                                                  ![d].actual_delivery = now]
       /\ sqlOrders' = [sqlOrders EXCEPT ![sqlDeliveries[d].order_id].status = "delivered",
                                          ![sqlDeliveries[d].order_id].actual_delivery = now]
       /\ sqlDeliveryResp' = [op |-> "complete", delivery |-> d, code |-> "200",
                              by |-> by, lat |-> 0]
       /\ UNCHANGED <<sqlCart, sqlOrderResp, notSqlDelivery>>

(***************************************************************************)
(* Checkout: a user fills the cart and checks out, while the catalogue's   *)
(* availability changes and the user's loyalty profile gets created.  The  *)
(* cart requests of a user and the checkouts of the same user do not       *)
(* overlap.                                                                *)
(***************************************************************************)
NoCheckout(u) == \A r \in Reqs : chk[r].pc = "idle" \/ chk[r].user # u

Noon == [weekday |-> "monday", hour |-> 12]

NextCheckout ==
  \/ NoCheckout("u1") /\ \E p \in Products : AddItem("u1", p, 1, << >>, Noon)
  \/ \E a \in BOOLEAN, st \in {-1, 0} : EditProduct("p1", 35000, a, st)
  \/ GetProfile
  \/ Checkout(1, "u1")
SpecCheckout == Init /\ [][NextCheckout]_vars

(***************************************************************************)
(* Purchase: a user fills the cart, redeems points, applies a discount and *)
(* checks out.                                                             *)
(***************************************************************************)
FillCart(u) ==
  \/ \E p \in Products : AddItem(u, p, 1, << >>, Noon)
  \/ \E n \in {0, 100} : SetPayment(u, n)
  \/ ApplyDiscount(u, 5000)

NextPurchase ==
  \/ NoCheckout("u1") /\ FillCart("u1")
  \/ GetProfile
  \/ Checkout(1, "u1")
SpecPurchase == Init /\ [][NextPurchase]_vars

(***************************************************************************)
(* Order numbers: checkouts of either back end, by two users at a time,    *)
(* while the clock advances.                                               *)
(***************************************************************************)
NextNumbers ==
  \/ \E u \in Users : NoCheckout(u) /\ AddItem(u, "p1", 1, << >>, Noon)
  \/ Checkout(1, "u1")
  \/ Checkout(2, "u2")
  \/ SqlCartAdd("p1", 1)
  \/ \E b \in SqlBodies, rnd \in RandomDraws : SqlCreateOrder(b, "pickup", rnd)
  \/ Tick
SpecNumbers == Init /\ [][NextNumbers]_vars

(***************************************************************************)
(* The life of an order: checkouts one at a time, then the requests and    *)
(* the model's methods on the stored orders, with prices changing.         *)
(***************************************************************************)
NextOrderLife ==
  \/ NoCheckout("u1") /\ AddItem("u1", "p1", 1, << >>, Noon)
  \/ \E price \in Prices : EditProduct("p1", price, TRUE, -1)
  \/ Checkout(1, "u1")
  \/ \E i \in 1..Len(orders) : OrderItemRequest(i)
  \/ \E i \in 1..Len(orders) : OrderUpdateStatus(i, "confirmed", "")
SpecOrderLife == Init /\ [][NextOrderLife]_vars

(***************************************************************************)
(* The status of an order: checkouts one at a time, then the status        *)
(* routes and the model's updateStatus on the stored orders.               *)
(***************************************************************************)
NextOrderStatus ==
  \/ NoCheckout("u1") /\ AddItem("u1", "p1", 1, << >>, Noon)
  \/ Checkout(1, "u1")
  \/ \E i \in 1..Len(orders) : OrderStatusRequest(i)
SpecOrderStatus == Init /\ [][NextOrderStatus]_vars

(***************************************************************************)
(* SQL orders and their deliveries: orders are created, staff set their    *)
(* status, deliveries are created and the drivers complete them.           *)
(***************************************************************************)
\* the statuses the SQL status requests of the model ask for
SqlStatusChoices == {"delivered", "cancelled"}

NextSqlDelivery ==
  \/ \E t \in DeliveryTypes, rnd \in RandomDraws :
       SqlCreateOrder(<<[productId |-> "p1", quantity |-> 1]>>, t, rnd)
  \/ \E i \in 1..Len(sqlOrders), st \in SqlStatusChoices : SqlPutStatus(i, st, "")
  \/ \E o \in 1..MaxSqlOrders, driverId \in Drivers : SqlDeliveryCreate(o, driverId)
  \/ \E d \in 1..MaxDeliveries, by \in Requesters : SqlDeliveryComplete(d, by)
SpecSqlDelivery == Init /\ [][NextSqlDelivery]_vars

(***************************************************************************)
(* Tracking: one delivery gets a driver, is picked up, and the driver's    *)
(* positions arrive through updateLocation and through the update-location *)
(* route.                                                                  *)
(***************************************************************************)
NextTracking ==
  \/ deliveries = << >> /\ NewDelivery(1)
  \/ \E d \in 1..Len(deliveries) : AssignDriver(d, "d1")
  \/ \E d \in 1..Len(deliveries) : PutDeliveryStatus(d, "picked_up")
  \/ \E d \in 1..Len(deliveries) : DeliveryUpdateLocation(d)
  \/ \E d \in 1..Len(deliveries), by \in Requesters :
       PutLocation(d, by, nextPosition(deliveries[d]))
SpecTracking == Init /\ [][NextTracking]_vars

(***************************************************************************)
(* The life of a delivery: one delivery is assigned to drivers, by the     *)
(* route and by the model's method, staff set its status and the drivers   *)
(* ask to complete it.                                                     *)
(***************************************************************************)
NextDelivery ==
  \/ deliveries = << >> /\ NewDelivery(1)
  \/ \E d \in 1..Len(deliveries), a \in Requesters : AssignDriver(d, a)
  \/ \E d \in 1..Len(deliveries), a \in Requesters : DeliveryAssignDriver(d, a)
  \/ \E d \in 1..Len(deliveries), st \in DeliveryStatusChoices : PutDeliveryStatus(d, st)
  \/ \E d \in 1..Len(deliveries), by \in Requesters : DeliveryComplete(d, by)
SpecDelivery == Init /\ [][NextDelivery]_vars

(***************************************************************************)
(* Creating deliveries: orders of both back ends exist and staff ask for   *)
(* deliveries of them, also for orders that have one.                      *)
(***************************************************************************)
NextDeliveryCreate ==
  \/ \E t \in DeliveryTypes, rnd \in RandomDraws :
       SqlCreateOrder(<<[productId |-> "p1", quantity |-> 1]>>, t, rnd)
  \/ \E o \in 1..MaxSqlOrders, driverId \in Drivers : SqlDeliveryCreate(o, driverId)
  \/ NoCheckout("u1") /\ AddItem("u1", "p1", 1, << >>, Noon)
  \/ Checkout(1, "u1")
  \/ deliveries = << >> /\ NewDelivery(1)
  \/ \E o \in 1..MaxOrders : DeliveryCreate(o)
SpecDeliveryCreate == Init /\ [][NextDeliveryCreate]_vars

(***************************************************************************)
(* Large carts: a user adds single units and the largest quantities a      *)
(* request may carry, and removes lines.                                   *)
(***************************************************************************)
\* the quantities of the add-item requests of large carts
BulkQuantities == {1, CartItemMax, CartItemMax + 1}

NextBulkCart ==
  \/ \E p \in Products, quantity \in BulkQuantities :
       /\ lineQuantity("u1", p) + quantity <= CartItemMax + MaxOver
       /\ AddItemRequest("u1", p, quantity, << >>, Noon)
  \/ \E p \in Products : RemoveItem("u1", p)
SpecBulkCart == Init /\ [][NextBulkCart]_vars

(***************************************************************************)
(* Old carts: a user fills the cart, time passes and the user checks out.  *)
(***************************************************************************)
NextOldCart ==
  \/ NoCheckout("u1") /\ AddItem("u1", "p1", 1, << >>, Noon)
  \/ NoCheckout("u1") /\ RemoveItem("u1", "p1")
  \/ Tick
  \/ Elapse
  \/ Checkout(1, "u1")
SpecOldCart == Init /\ [][NextOldCart]_vars

(***************************************************************************)
(* Loyalty claims                                                          *)
(***************************************************************************)
\* two finished use-points requests of the same amount that loaded the same
\* account state, whose balance pays for one of them but not for both
RacingRedemptions(r1, r2) ==
  /\ r1 # r2
  /\ req[r1].pc = "done" /\ req[r2].pc = "done"
  /\ req[r1].op = "use" /\ req[r2].op = "use"
  /\ req[r1].amount = req[r2].amount
  /\ req[r1].orig = req[r2].orig
  /\ req[r1].amount <= req[r1].orig.current
  /\ req[r1].orig.current < 2 * req[r1].amount

\* C1: of two concurrent redemptions of a points each against a balance c with
\* a <= c < 2a, exactly one succeeds and the other is refused for insufficient
\* points; the account ends with current = c - a and used increased by a.
C1_ExactlyOneRedemption ==
  \A r1, r2 \in Reqs :
    RacingRedemptions(r1, r2) =>
      /\ {req[r1].result, req[r2].result} = {"ok", "insufficient"}
      /\ loyalty.current = req[r1].orig.current - req[r1].amount
      /\ loyalty.used = req[r1].orig.used + req[r1].amount

\* C3: points conservation, total = used + expired + current, in every state
\* reached by a sequence of addPoints, usePoints and adjust-points.
C3_PointsConservation ==
  loyalty.total = loyalty.used + loyalty.expired + loyalty.current

C3_Witness ==
  /\ loyalty.used > 0
  /\ \E i \in 1..Len(loyalty.transactions) : loyalty.transactions[i].type = "adjustment"
  /\ \E i \in 1..Len(loyalty.transactions) : loyalty.transactions[i].type = "earned"

\* C5: in both back ends an operation that lowers the point balance never
\* leaves the stored tier higher than before, and one that raises the balance
\* never leaves it lower.
C5_TierMonotonic ==
  [][ /\ loyalty'.current < loyalty.current => TierRank(loyalty'.tier) <= TierRank(loyalty.tier)
      /\ loyalty'.current > loyalty.current => TierRank(loyalty'.tier) >= TierRank(loyalty.tier)
      /\ sqlUser'.loyalty_points < sqlUser.loyalty_points
            => TierRank(sqlUser'.loyalty_tier) <= TierRank(sqlUser.loyalty_tier)
      /\ sqlUser'.loyalty_points > sqlUser.loyalty_points
            => TierRank(sqlUser'.loyalty_tier) >= TierRank(sqlUser.loyalty_tier) ]_vars

\* the tier of the highest threshold among 0/200/500/1000 not exceeding p
TierOfPoints(p) ==
  LET threshold == [bronze |-> 0, silver |-> 200, gold |-> 500, platinum |-> 1000]
  IN CHOOSE t \in DOMAIN threshold :
       /\ threshold[t] <= p
       /\ \A u \in DOMAIN threshold : threshold[u] <= p => threshold[u] <= threshold[t]

\* C6: after every persisted mutation the stored tier is the tier of the
\* highest threshold not exceeding points.current, benefits is that tier's
\* table entry, and a tier-history entry is appended exactly when the stored
\* tier changes.
C6_DerivedTier ==
  /\ [](loyalty.exists =>
          /\ loyalty.tier = TierOfPoints(loyalty.current)
          /\ loyalty.benefits = tierBenefits(loyalty.tier))
  /\ [][ IF loyalty'.tier # loyalty.tier
           THEN /\ Len(loyalty'.history) = Len(loyalty.history) + 1
                /\ loyalty'.history[Len(loyalty'.history)].tier = loyalty'.tier
                /\ SubSeq(loyalty'.history, 1, Len(loyalty.history)) = loyalty.history
           ELSE loyalty'.history = loyalty.history ]_vars

C6_Witness ==
  /\ loyalty.exists
  /\ loyalty.tier = "silver"
  /\ loyalty.benefits.freeDelivery
  /\ loyalty.current = 200
  /\ Len(loyalty.history) = 1

\* C7: usePoints(amount) with amount > current is refused for insufficient
\* points and leaves current, used and the transactions unchanged; with
\* amount <= current it appends one 'used' transaction of -amount, lowers
\* current by amount and raises used by amount.
C7_UsePoints ==
  [][ \A r \in Reqs :
        (req[r].pc = "loaded" /\ req[r].op = "use" /\ req'[r].pc = "done") =>
          IF req[r].amount > loyalty.current
            THEN /\ req'[r].result = "insufficient"
                 /\ loyalty'.current = loyalty.current
                 /\ loyalty'.used = loyalty.used
                 /\ loyalty'.transactions = loyalty.transactions
            ELSE /\ req'[r].result = "ok"
                 /\ loyalty'.transactions =
                      Append(loyalty.transactions, [type |-> "used", amount |-> -req[r].amount])
                 /\ loyalty'.current = loyalty.current - req[r].amount
                 /\ loyalty'.used = loyalty.used + req[r].amount ]_vars

C7_Witness ==
  /\ req[1].pc = "done" /\ req[1].op = "use" /\ req[1].result = "insufficient"
  /\ loyalty.used > 0
  /\ \E i \in 1..Len(loyalty.transactions) :
        loyalty.transactions[i].type = "used" /\ loyalty.transactions[i].amount < 0
(***************************************************************************)
(* Cart claims                                                             *)
(***************************************************************************)
\* C4: after every persisted cart mutation the stored totals satisfy
\* total = max(0, subtotal + deliveryFee + tax - discount - loyaltyDiscount),
\* with subtotal the sum over the lines of quantity x unitPrice + customization
\* costs, tax 23% of subtotal and loyaltyDiscount = loyaltyPointsUsed x 1 cent.
C4_CartTotals ==
  \A u \in Users :
    LET t == cart[u].totals IN
    cart[u].exists =>
      /\ t.total = Max(0, t.subtotal + t.deliveryFee + t.tax - t.discount - t.loyaltyDiscount)
      /\ t.subtotal = cartSubtotal(cart[u].items)
      /\ 100 * t.tax = 23 * t.subtotal
      /\ t.loyaltyDiscount = cart[u].points * 100
      /\ t.deliveryFee = cart[u].fee

C4_Witness ==
  LET c == cart["u1"] IN
  /\ c.exists /\ Len(c.items) = 2
  /\ \E i \in 1..2 : c.items[i].customization # << >>
  /\ c.fee > 0 /\ c.points > 0 /\ c.totals.discount > 0
  /\ c.totals.total > 0

(***************************************************************************)
(* Order claims                                                            *)
(***************************************************************************)
\* C2: the orders that checkouts of different users create while they
\* interleave on one day carry pairwise distinct order numbers, in either back
\* end, and no checkout fails because the number it took is already taken.
C2_DistinctOrderNumbers ==
  /\ \A i, j \in 1..Len(orders) :
       i # j => orders[i].orderNumber # orders[j].orderNumber
  /\ \A i, j \in 1..Len(sqlOrders) :
       i # j => sqlOrders[i].order_number # sqlOrders[j].order_number
  /\ \A r \in Reqs : chk[r].error # "E11000"
  /\ sqlOrderResp # "constraint"

\* C8: once an order's status is no longer pending, no step changes its line
\* items or its payment.finalAmount.
C8_OrderFrozen ==
  [][\A i \in 1..Len(orders) :
       orders[i].status # "pending" =>
         /\ orders'[i].items = orders[i].items
         /\ orders'[i].payment.finalAmount = orders[i].payment.finalAmount]_vars

\* what "available now" asks of a product at a clock: the flag, the day, the
\* opening hours and the stock
NotAvailableNow(prod, p, clock) ==
  \/ ~prod.isAvailable
  \/ clock.weekday \notin AvailableDays(p)
  \/ clock.hour < OpensAt \/ clock.hour > ClosesAt
  \/ (prod.stockQuantity # -1 /\ prod.stockQuantity <= 0)

\* the products of a cart's lines that are not available at a clock
Offending(c, clock) ==
  {c.items[i].product : i \in {j \in 1..Len(c.items) :
      NotAvailableNow(product[c.items[j].product], c.items[j].product, clock)}}

C11_PointsSettled ==
  /\ \A r \in Reqs :
       (chk[r].pc = "done" /\ chk[r].result = "201" /\ chk[r].cart.points > 0) =>
         /\ hasLoyalty(chk[r].user)
         /\ loyalty.used >= chk[r].cart.points
         /\ \E i \in 1..Len(loyalty.transactions) :
              loyalty.transactions[i] = [type |-> "used", amount |-> -chk[r].cart.points]
         /\ \E i \in 1..Len(orders) :
              /\ orders[i].orderNumber = chk[r].order.orderNumber
              /\ orders[i].used = chk[r].cart.points
  /\ cart["u1"].totals.loyaltyDiscount <= loyalty.current * PointValue

OrderStep(op, i) ==
  /\ orderResp' # orderResp
  /\ orderResp'.op = op
  /\ orderResp'.order = i

\* C13: a cancel request makes the order's status 'cancelled' when the status
\* is 'pending' or 'confirmed', and in every other status it is rejected and
\* leaves status.current and status.history as they were.
C13_CancelPolicy ==
  [][\A i \in 1..Len(orders) :
       OrderStep("cancel", i) =>
         IF orders[i].status \in {"pending", "confirmed"}
           THEN orders'[i].status = "cancelled"
           ELSE /\ orderResp'.code # "ok"
                /\ orders'[i].status = orders[i].status
                /\ orders'[i].history = orders[i].history]_vars

\* the actor that the requests of each kind pass to updateStatus
ActorOf(op) ==
  CASE op = "status" -> "staff"
    [] op = "cancel" -> "customer"
    [] op = "refund" -> "admin"
    [] op = "updateStatus" -> "none"

\* C15: every call of updateStatus(newStatus, note, actor) appends exactly one
\* entry to status.history, and the entry carries newStatus, the note of the
\* call (the generic note when there is none) and the actor of the call.
C15_StatusAudit ==
  [][\A i \in 1..Len(orders) :
       \A op \in {"status", "cancel", "refund", "updateStatus"} :
         (OrderStep(op, i) /\ orderResp'.code \in {"ok", "500"}) =>
           /\ Len(orders'[i].history) = Len(orders[i].history) + 1
           /\ orders'[i].history[Len(orders'[i].history)] =
                [status |-> orders'[i].status,
                 note |-> IF orders'[i].staffNotes # "" THEN orders'[i].staffNotes
                          ELSE "Status atualizado",
                 updatedBy |-> ActorOf(op)]]_vars

\* C14: once the status of an order is 'delivered', 'cancelled' or
\* 'refunded', no later operation (status update, cancel, refund, delivery
\* completion) changes it.
C14_TerminalStatus ==
  [][/\ \A i \in 1..Len(orders) :
          orders[i].status \in {"delivered", "cancelled", "refunded"} =>
            orders'[i].status = orders[i].status
     /\ \A i \in 1..Len(sqlOrders) :
          sqlOrders[i].status \in {"delivered", "cancelled", "refunded"} =>
            sqlOrders'[i].status = sqlOrders[i].status]_vars

C18_Assignment ==
  [][\A d \in 1..Len(deliveries) :
       ( /\ deliveryResp' # deliveryResp
         /\ deliveryResp'.op \in {"assign", "assignDriver"}
         /\ deliveryResp'.delivery = d ) =>
         IF roleOf(deliveryResp'.by) # "driver"
           THEN /\ deliveryResp'.code # "200"
                /\ deliveries'[d].driver = deliveries[d].driver
                /\ deliveries'[d].status = deliveries[d].status
                /\ deliveries'[d].history = deliveries[d].history
           ELSE /\ deliveries'[d].driver = deliveryResp'.by
                /\ deliveries'[d].status = "assigned"
                /\ Len(deliveries'[d].history) = Len(deliveries[d].history) + 1
                /\ deliveries'[d].history[Len(deliveries'[d].history)].status = "assigned"]_vars

C21_LookupFailure ==
  [][\A u \in Users, p \in Products :
       (cart[u].exists /\ lineIndex(cart[u].items, p) = 0) =>
         /\ \A n \in {-1, 0, 1} :
              /\ cartUpdateItemQuantity(cart[u], p, n).threw
              /\ cartUpdateItemQuantity(cart[u], p, n).cart = cart[u]
         /\ RemoveItem(u, p) => (cartResp' # "ok" /\ cart' = cart)]_vars

C23_HistoryAppendOnly ==
  [][\A i \in 1..Len(orders) :
       /\ Len(orders'[i].history) >= Len(orders[i].history)
       /\ \A k \in 1..Len(orders[i].history) :
            orders'[i].history[k] = orders[i].history[k]]_vars

C25_TierDiscount ==
  [][\A r \in Reqs :
       ( /\ chk[r].pc = "built"
         /\ chk'[r].pc # "built"
         /\ hasLoyalty(chk[r].user)
         /\ loyalty.benefits.discountPercentage > 0 ) =>
         LET before == chk[r].order.payment
             after == chk'[r].order.payment
             tierDiscount == (before.amount * loyalty.benefits.discountPercentage) \div 100
         IN /\ chk'[r].pc # "done"
            /\ after.finalAmount = before.finalAmount - tierDiscount]_vars

(***************************************************************************)
(* A busy day.  The orders collection already holds the order that has the *)
(* day's greatest number; the orders before it are left out, since the     *)
(* number hook reads only the last one.  Checkouts then run one at a time. *)
(***************************************************************************)
MaxSeed == 999        \* the sequence of the day's last order at the start, 0 = no order yet
MaxDayOrders == 4     \* orders in the collection of the busy day

\* POST /create from request to response, with no other handler between its
\* steps: the tests of the cart, new Order(...), Loyalty.findOne, order.save()
\* with its number hook and the unique index, cart.clearCart()
CheckoutAlone(u, clock) ==
  LET c == cart[u]
      avail(i) == isAvailableNow(product[c.items[i].product], c.items[i].product,
                                 currentDay(engine, clock))
      lines == 1..Len(c.items)
      day == dayOf(now)
      order == [orderFromCart(u, c) EXCEPT
                  !.orderNumber = formatOrderNumber(day, nextSequence(orders, day))]
      refused(code) ==
        /\ orderResp' = [op |-> "create", order |-> 0, code |-> code]
        /\ UNCHANGED <<orders, cart>>
  IN
  /\ \A r \in Reqs : chk[r].pc = "idle"
  /\ Len(orders) < MaxDayOrders
  /\ IF ~c.exists \/ c.items = << >> THEN refused("400")
     ELSE IF \E i \in lines : avail(i) = "throws" THEN refused("500")
     ELSE IF \E i \in lines : avail(i) = "false" THEN refused("400")
     ELSE IF hasLoyalty(u) THEN refused("500")
     ELSE IF \E i \in 1..Len(orders) : orders[i].orderNumber = order.orderNumber
       THEN refused("500")
     ELSE /\ orders' = Append(orders, order)
          /\ cart' = [cart EXCEPT ![u] = cartClearCart(c)]
          /\ orderResp' = [op |-> "create", order |-> Len(orders) + 1, code |-> "201"]
  /\ UNCHANGED <<chk, notOrder>>

\* the order stored by the s-th checkout of day 0
seedOrder(s) ==
  [orderFromCart("u2", cartAddItem(NewCart, "p1", 1, 35000, << >>)) EXCEPT
     !.orderNumber = formatOrderNumber(0, s)]

InitBusyDay ==
  /\ loyalty = NewLoyalty
  /\ req = [r \in Reqs |-> IdleReq]
  /\ sqlUser = [loyalty_points |-> 0, loyalty_tier |-> "bronze"]
  /\ sqlTx = << >>
  /\ product = [p \in Products |-> [price |-> 35000, isAvailable |-> TRUE, stockQuantity |-> -1]]
  /\ cart = [u \in Users |-> NewCart]
  /\ cartResp = "none"
  /\ engine \in Engines
  /\ now = 0
  /\ \E s \in 0..MaxSeed : orders = IF s = 0 THEN << >> ELSE <<seedOrder(s)>>
  /\ chk = [r \in Reqs |-> IdleChk]
  /\ orderResp = [op |-> "none", order |-> 0, code |-> "none"]
  /\ sqlCart = [p \in Products |-> 0]
  /\ sqlOrders = << >>
  /\ sqlOrderResp = "none"
  /\ deliveries = << >>
  /\ deliveryResp = NoDeliveryResp
  /\ sqlDeliveries = << >>
  /\ sqlDeliveryResp = NoDeliveryResp

NextBusyDay ==
  \/ AddItem("u2", "p1", 1, << >>, Noon)
  \/ \E k \in Clocks : CheckoutAlone("u2", k)
SpecBusyDay == InitBusyDay /\ [][NextBusyDay]_vars

\* the number written by a string of digits
RECURSIVE digitsValue(_)
digitsValue(text) ==
  IF text = << >> THEN 0
  ELSE digitsValue(SubSeq(text, 1, Len(text) - 1)) * 10 + text[Len(text)]

NextCustomOrder ==
  \/ NoCheckout("u2") /\ \E p \in Products, c \in Customizations : AddItem("u2", p, 1, c, Noon)
  \/ NoCheckout("u2") /\ \E q \in Quantities : UpdateItem("u2", "p1", q)
  \/ Checkout(1, "u2")
SpecCustomOrder == Init /\ [][NextCustomOrder]_vars

\* C27: every line of every cart has totalPrice = quantity x unitPrice + the
\* sum of its customization costs, and an order built by a checkout has
\* payment.amount equal to totals.subtotal of the cart it was built from.
C27_AmountAgreement ==
  /\ \A u \in Users : \A i \in 1..Len(cart[u].items) :
       LET item == cart[u].items[i] IN
       item.totalPrice = item.quantity * item.unitPrice + SumSeq(item.customization)
  /\ \A r \in Reqs :
       chk[r].pc \notin {"idle", "done"} =>
         chk[r].order.payment.amount = chk[r].cart.totals.subtotal

\* one customer who sends the checkout request twice at the same time
NextDoubleCheckout ==
  \/ NoCheckout("u2") /\ \E p \in Products : AddItem("u2", p, 1, << >>, Noon)
  \/ Checkout(1, "u2")
  \/ Checkout(2, "u2")
SpecDoubleCheckout == Init /\ [][NextDoubleCheckout]_vars

\* the handler has stored its order
inserted(r) ==
  \/ chk[r].pc = "clear"
  \/ chk[r].pc = "done" /\ (chk[r].result = "201" \/ chk[r].error = "VersionError")

RECURSIVE ledgerSum(_)
ledgerSum(transactions) ==
  IF transactions = << >> THEN 0
  ELSE Head(transactions).amount + ledgerSum(Tail(transactions))

\* C29: the stored balance points.current equals the sum of amount over the
\* stored transactions, in every state reached by addPoints, usePoints and
\* adjust-points requests, whether they run one after the other or interleave.
C29_LedgerBalance ==
  loyalty.current = ledgerSum(loyalty.transactions)

====
